---- MODULE Spec2Model ----
(***************************************************************************)
(* A model of the Job Composer front end:                                  *)
(*   - JobComposer (getFormData, handleSubmit, modal handlers),            *)
(*   - MultiPaneTextArea (getSortedPanes, getPaneRefs, debounced edits),   *)
(*   - DynamicRadioGroup (fetchOptions, debounce, fetch-trigger effects).  *)
(* Time is counted in ticks of 100 ms; a React event handler together with *)
(* the re-renders and effects it causes is one atomic action.              *)
(***************************************************************************)
EXTENDS Integers, Sequences, FiniteSets, TLC

VARIABLES
    \* ---- MultiPaneTextArea
    panes,                 \* the externally owned pane list (props.panes)
    paneTimers,            \* contentUpdateTimeoutsRef.current: index -> pending commit
    activePane,            \* useState(0): index (0-based) of the pane being edited
    propActivePane,        \* the activePane prop of integrated mode
    onChangeCall,          \* the last event handed to a pane's onChange callback
    edits,                 \* number of editor change events so far (bounded)
    \* ---- JobComposer
    jobStatus,             \* props.jobStatus: "rerun" or "fresh"
    rerunInfo,             \* props.rerunInfo: the prior-job record (a mutable object)
    form,                  \* the entries of the live form element formRef.current
    globalFiles,           \* props.globalFiles
    environment,           \* props.environment
    showSplitScreenModal,  \* useState(false)
    status,                \* the status published by useJobSocket
    submitCalls,           \* number of submitJob(action, formData) invocations
    acked,                 \* number of submitted jobs the transport has picked up
    lastFormData,          \* the formData handed to the last submitJob invocation
    alertMsg,              \* the text of the last alert() shown
    multiPaneMounted,      \* whether multiPaneRef.current holds the editor's handle
    \* ---- DynamicRadioGroup
    mounted, options, value, isLoading, isEvaluated, isValueInvalid,
    formValues,            \* FormValuesContext values
    formValuesRef,         \* formValuesRef.current
    prevRelevantValues,    \* prevRelevantValuesRef.current
    propsValue,            \* props.value
    isShown,               \* props.isShown ?? true
    retrieverPath,         \* props.retrieverPath || props.retriever
    retrieverParams,       \* props.retrieverParams
    timers,                \* pending debounce timers, oldest first
    inflight,              \* fetches issued and not yet resolved, oldest first
    error,                 \* the last error handed to props.setError
    fetchStarts,           \* number of fetchOptions invocations (the log line)
    \* ---- query construction on its own
    query                  \* the URLSearchParams entries built last

paneVars == <<panes, paneTimers, activePane, propActivePane, onChangeCall, edits>>
composerVars == <<jobStatus, rerunInfo, form, globalFiles, environment,
                  showSplitScreenModal, status, submitCalls, acked,
                  lastFormData, alertMsg, multiPaneMounted>>
drgVars == <<mounted, options, value, isLoading, isEvaluated, isValueInvalid,
             formValues, formValuesRef, prevRelevantValues, propsValue, isShown,
             retrieverPath, retrieverParams, timers, inflight, error, fetchStarts>>
vars == <<paneVars, composerVars, drgVars, query>>

(***************************************************************************)
(* Bounds of the model and program constants.                              *)
(***************************************************************************)
MaxPanes == 4
MaxEdits == 2
MaxSubmits == 2
MaxFetchCalls == 3
MaxParams == 2
\* setTimeout(..., 300): the debounce window, in ticks of 100 ms
DebounceTicks == 3
\* let zeroOrderIndex = 10000
zeroOrderIndex == 10000

(***************************************************************************)
(* JavaScript values.                                                      *)
(***************************************************************************)
JsString(s) == [t |-> "string", s |-> s, n |-> 0, b |-> FALSE, items |-> <<>>]
JsNumber(n) == [t |-> "number", s |-> "", n |-> n, b |-> FALSE, items |-> <<>>]
JsBoolean(b) == [t |-> "boolean", s |-> "", n |-> 0, b |-> b, items |-> <<>>]
JsNull == [t |-> "null", s |-> "", n |-> 0, b |-> FALSE, items |-> <<>>]
JsUndefined == [t |-> "undefined", s |-> "", n |-> 0, b |-> FALSE, items |-> <<>>]
\* an array of strings, or of File objects named by strings
JsArray(items) == [t |-> "array", s |-> "", n |-> 0, b |-> FALSE, items |-> items]
JsFile(name) == [t |-> "file", s |-> name, n |-> 0, b |-> FALSE, items |-> <<>>]

\* String(v) for a primitive
JsToString(v) ==
    CASE v.t = "string" -> v.s
      [] v.t = "number" -> ToString(v.n)
      [] v.t = "boolean" -> (IF v.b THEN "true" ELSE "false")
      [] v.t = "null" -> "null"
      [] v.t = "undefined" -> "undefined"
      [] v.t = "file" -> "[object File]"
      [] OTHER -> "[object Object]"

\* JSON.stringify of a string free of quotes, backslashes and control characters
JsonString(s) == "\"" \o s \o "\""

RECURSIVE JsonJoin(_)
JsonJoin(parts) ==
    IF parts = <<>> THEN ""
    ELSE IF Len(parts) = 1 THEN parts[1]
    ELSE parts[1] \o "," \o JsonJoin(Tail(parts))

\* JSON.stringify of an object whose values are strings; obj is its entries in
\* insertion order, which is the order JSON.stringify writes them in
JsonStringifyObject(obj) ==
    "{" \o JsonJoin([i \in 1..Len(obj) |->
                        JsonString(obj[i].k) \o ":" \o JsonString(obj[i].v)]) \o "}"

\* JSON.stringify of a value that is not a primitive
JsonStringify(v) ==
    CASE v.t = "array" ->
            "[" \o JsonJoin([i \in 1..Len(v.items) |-> JsonString(v.items[i])]) \o "]"
      [] v.t = "string" -> JsonString(v.s)
      [] v.t = "number" -> ToString(v.n)
      [] v.t = "boolean" -> (IF v.b THEN "true" ELSE "false")
      [] v.t = "null" -> "null"
      [] OTHER -> "{}"

\* obj[key] = val on an object given as its entries in insertion order
ObjSet(obj, key, val) ==
    IF \E i \in 1..Len(obj) : obj[i].k = key
    THEN [i \in 1..Len(obj) |-> IF obj[i].k = key THEN [k |-> key, v |-> val] ELSE obj[i]]
    ELSE Append(obj, [k |-> key, v |-> val])

ObjHas(obj, key) == \E i \in 1..Len(obj) : obj[i].k = key

ObjGet(obj, key) == obj[CHOOSE i \in 1..Len(obj) : obj[i].k = key].v

(***************************************************************************)
(* MultiPaneTextArea.                                                      *)
(***************************************************************************)
\* a pane without a content property
NoContent == "<undefined>"

\* pane.content || ''
ContentOrEmpty(c) == IF c = NoContent THEN "" ELSE c

\* Array.prototype.sort((a, b) => a.order - b.order) is stable: x goes behind
\* every element that does not compare greater than it
RECURSIVE InsertByOrder(_, _)
InsertByOrder(sorted, x) ==
    IF sorted = <<>> THEN <<x>>
    ELSE IF sorted[Len(sorted)].order <= x.order THEN Append(sorted, x)
    ELSE Append(InsertByOrder(SubSeq(sorted, 1, Len(sorted) - 1), x), sorted[Len(sorted)])

RECURSIVE SortByOrder(_)
SortByOrder(s) ==
    IF s = <<>> THEN <<>>
    ELSE InsertByOrder(SortByOrder(SubSeq(s, 1, Len(s) - 1)), s[Len(s)])

\* the .map step: index is the 0-based array index
NormalizeZeroOrder(ps) ==
    [i \in 1..Len(ps) |->
        IF ps[i].order = 0 THEN [ps[i] EXCEPT !.order = zeroOrderIndex + (i - 1)]
        ELSE ps[i]]

IsDisplayedOrderAny(p) == TRUE
IsDisplayedOrder(p) == p.order # -1

getSortedPanes(ps) == SelectSeq(SortByOrder(NormalizeZeroOrder(ps)), IsDisplayedOrder)

sortedPanes == getSortedPanes(panes)

\* each ref: current.getAttribute("name") and current.value
PaneRef(pane) == [name |-> pane.name, value |-> ContentOrEmpty(pane.content)]

getPaneRefs(ps) == [i \in 1..Len(getSortedPanes(ps)) |-> PaneRef(getSortedPanes(ps)[i])]

\* activePane: propActivePane left undefined by the parent (standalone mode)
NoActivePaneProp == -1

NoTimer == [pending |-> FALSE, content |-> "", name |-> "", onChange |-> FALSE, remaining |-> 0]

NoCall == [called |-> FALSE, name |-> "", value |-> ""]

\* updatedPanes.findIndex(p => p.name === name), 1-based, 0 when there is none
FindIndexByName(ps, name) ==
    IF \E i \in 1..Len(ps) : ps[i].name = name
    THEN CHOOSE i \in 1..Len(ps) :
            /\ ps[i].name = name
            /\ \A j \in 1..(i - 1) : ps[j].name # name
    ELSE 0

CommitContentToSortedPanes(ps, name, newContent) ==
    IF FindIndexByName(getSortedPanes(ps), name) # 0
    THEN [getSortedPanes(ps) EXCEPT
             ![FindIndexByName(getSortedPanes(ps), name)].content = newContent]
    ELSE getSortedPanes(ps)

\* the setPanes updater of the debounced commit
CommitContent(ps, name, newContent) ==
    IF FindIndexByName(ps, name) # 0
    THEN [ps EXCEPT ![FindIndexByName(ps, name)].content = newContent]
    ELSE ps

(***************************************************************************)
(* JobComposer.                                                            *)
(***************************************************************************)
\* status === 'submitting' || status === 'running'
isJobRunning == status = "submitting" \/ status = "running"

IsReservedNameDriverOnly(name) == name = "driver"
IsReservedName(name) == name = "driver" \/ name = "run_command"

\* formData.append(key, value)
FormDataEntry(key, val, isFile) == [k |-> key, v |-> val, file |-> isFile]

\* the rerun branch's paneRefs.forEach: acc is [data, additionalFiles]
RECURSIVE SplitRerunPanes(_, _)
SplitRerunPanes(refs, acc) ==
    IF refs = <<>> THEN acc
    ELSE SplitRerunPanes(Tail(refs),
            IF IsReservedName(Head(refs).name)
            THEN [acc EXCEPT !.data = ObjSet(acc.data, Head(refs).name, JsString(Head(refs).value))]
            ELSE [acc EXCEPT !.additionalFiles =
                        ObjSet(acc.additionalFiles, Head(refs).name, Head(refs).value)])

\* the entries one property of data contributes to the FormData
RerunEntries(key, val) ==
    CASE val.t = "file" -> <<FormDataEntry(key, val.s, TRUE)>>
      [] val.t = "array" ->
            [i \in 1..Len(val.items) |-> FormDataEntry(key \o "[]", val.items[i], TRUE)]
      [] val.t \in {"null", "undefined"} -> <<>>
      [] OTHER -> <<FormDataEntry(key, JsToString(val), FALSE)>>

\* for (const [key, value] of Object.entries(data)) ...
RECURSIVE ObjectToFormData(_)
ObjectToFormData(data) ==
    IF data = <<>> THEN <<>>
    ELSE RerunEntries(Head(data).k, Head(data).v) \o ObjectToFormData(Tail(data))

\* props.globalFiles is [present, items]; an array, even an empty one, is truthy
RerunData(refs, info, files) ==
    LET split == SplitRerunPanes(refs, [data |-> info, additionalFiles |-> <<>>])
        withAdditional == ObjSet(split.data, "additional_files",
                                 JsString(JsonStringifyObject(split.additionalFiles)))
    IN  IF files.present THEN ObjSet(withAdditional, "files", JsArray(files.items))
        ELSE withAdditional

\* the fresh branch's paneRefs.forEach: acc is [formData, additional_files]
RECURSIVE SplitFreshPanes(_, _)
SplitFreshPanes(refs, acc) ==
    IF refs = <<>> THEN acc
    ELSE SplitFreshPanes(Tail(refs),
            IF IsReservedName(Head(refs).name)
            THEN [acc EXCEPT !.formData =
                        Append(acc.formData, FormDataEntry(Head(refs).name, Head(refs).value, FALSE))]
            ELSE [acc EXCEPT !.additionalFiles =
                        ObjSet(acc.additionalFiles, Head(refs).name, Head(refs).value)])

FreshFormDataEnvOfAnyEnvironment(refs, liveForm, env, files) ==
    LET split == SplitFreshPanes(refs, [formData |-> liveForm, additionalFiles |-> <<>>])
        withAdditional == Append(split.formData,
                                 FormDataEntry("additional_files",
                                               JsonStringifyObject(split.additionalFiles), FALSE))
        withEnv == IF env.present
                   THEN Append(withAdditional, FormDataEntry("env_dir", env.src, FALSE))
                   ELSE withAdditional
    IN  IF files.present /\ Len(files.items) > 0
        THEN withEnv \o [i \in 1..Len(files.items) |->
                            FormDataEntry("files[]", files.items[i], TRUE)]
        ELSE withEnv

\* props.environment is [present, src]; src "" stands for a missing or empty src
FreshFormData(refs, liveForm, env, files) ==
    LET split == SplitFreshPanes(refs, [formData |-> liveForm, additionalFiles |-> <<>>])
        withAdditional == Append(split.formData,
                                 FormDataEntry("additional_files",
                                               JsonStringifyObject(split.additionalFiles), FALSE))
        withEnv == IF env.present /\ env.src # ""
                   THEN Append(withAdditional, FormDataEntry("env_dir", env.src, FALSE))
                   ELSE withAdditional
    IN  IF files.present /\ Len(files.items) > 0
        THEN withEnv \o [i \in 1..Len(files.items) |->
                            FormDataEntry("files[]", files.items[i], TRUE)]
        ELSE withEnv

\* getFormData(): null (ok = FALSE) without pane refs; data is props.rerunInfo as
\* the call leaves it
getFormData ==
    IF ~multiPaneMounted
    THEN [ok |-> FALSE, formData |-> <<>>, data |-> rerunInfo]
    ELSE IF jobStatus = "rerun"
    THEN [ok |-> TRUE,
          formData |-> ObjectToFormData(RerunData(getPaneRefs(panes), rerunInfo, globalFiles)),
          data |-> RerunData(getPaneRefs(panes), rerunInfo, globalFiles)]
    ELSE [ok |-> TRUE,
          formData |-> FreshFormData(getPaneRefs(panes), form, environment, globalFiles),
          data |-> rerunInfo]

\* formData.get(key): the first value under key, found = FALSE for null
FormDataGet(fd, key) ==
    IF \E i \in 1..Len(fd) : fd[i].k = key
    THEN LET i == CHOOSE i \in 1..Len(fd) :
                    fd[i].k = key /\ \A j \in 1..(i - 1) : fd[j].k # key
         IN  [found |-> TRUE, v |-> fd[i].v, file |-> fd[i].file]
    ELSE [found |-> FALSE, v |-> "", file |-> FALSE]

\* formData.get("name") === ""
NameIsEmpty(fd) ==
    LET got == FormDataGet(fd, "name") IN got.found /\ ~got.file /\ got.v = ""

AlertRunning == "A job is already running. Please wait for it to complete before submitting another job."
AlertPreparing == "Error preparing form data."
AlertName == "Job name is required."
NoAlert == ""
NoFormData == <<>>

\* handleSubmit(e), under the guards it passes or fails
SubmitBlockedRunningOnly == status = "running"
SubmitBlockedRunning == isJobRunning
SubmitBlockedNoData == ~getFormData.ok
SubmitBlockedNameOfLiveForm == NameIsEmpty(form)
SubmitBlockedName == NameIsEmpty(getFormData.formData)

handleSubmit ==
    /\ submitCalls < MaxSubmits
    /\ IF SubmitBlockedRunning
       THEN /\ alertMsg' = AlertRunning
            /\ UNCHANGED <<rerunInfo, submitCalls, lastFormData>>
       ELSE IF SubmitBlockedNoData
       THEN /\ alertMsg' = AlertPreparing
            /\ UNCHANGED <<rerunInfo, submitCalls, lastFormData>>
       ELSE IF SubmitBlockedName
       THEN /\ alertMsg' = AlertName
            /\ rerunInfo' = getFormData.data
            /\ UNCHANGED <<submitCalls, lastFormData>>
       ELSE /\ rerunInfo' = getFormData.data
            /\ submitCalls' = submitCalls + 1
            /\ lastFormData' = getFormData.formData
            /\ UNCHANGED alertMsg
    /\ UNCHANGED <<jobStatus, form, globalFiles, environment, showSplitScreenModal,
                   status, acked, multiPaneMounted>>
    /\ UNCHANGED <<paneVars, drgVars, query>>

\* handlePreview(): props.handlePreview() prepares the preview, then the modal opens
handlePreview ==
    /\ ~showSplitScreenModal
    /\ showSplitScreenModal' = TRUE
    /\ UNCHANGED <<jobStatus, rerunInfo, form, globalFiles, environment, status,
                   submitCalls, acked, lastFormData, alertMsg, multiPaneMounted>>
    /\ UNCHANGED <<paneVars, drgVars, query>>

\* handleCloseSplitScreenModal(): closes the modal and reset()s the transport
handleCloseSplitScreenModal ==
    /\ showSplitScreenModal
    /\ showSplitScreenModal' = FALSE
    /\ status' = "idle"
    /\ acked' = submitCalls
    /\ UNCHANGED <<jobStatus, rerunInfo, form, globalFiles, environment,
                   submitCalls, lastFormData, alertMsg, multiPaneMounted>>
    /\ UNCHANGED <<paneVars, drgVars, query>>

\* useJobSocket picks a submitted job up and publishes 'submitting'
TransportPickUp ==
    /\ acked < submitCalls
    /\ acked' = acked + 1
    /\ status' = "submitting"
    /\ UNCHANGED <<jobStatus, rerunInfo, form, globalFiles, environment,
                   showSplitScreenModal, submitCalls, lastFormData, alertMsg,
                   multiPaneMounted>>
    /\ UNCHANGED <<paneVars, drgVars, query>>

\* useJobSocket publishes the next status of the job it runs
TransportAdvance ==
    /\ \/ status = "submitting" /\ status' = "running"
       \/ status = "running" /\ status' \in {"completed", "error"}
    /\ UNCHANGED <<jobStatus, rerunInfo, form, globalFiles, environment,
                   showSplitScreenModal, submitCalls, acked, lastFormData, alertMsg,
                   multiPaneMounted>>
    /\ UNCHANGED <<paneVars, drgVars, query>>

(***************************************************************************)
(* MultiPaneTextArea: events.                                              *)
(***************************************************************************)
Contents == {"", "echo hi", "x"}

handleContentChangeSharedTimeout(newContent) ==
    /\ multiPaneMounted
    /\ edits < MaxEdits
    /\ activePane < Len(sortedPanes)
    /\ paneTimers' = [i \in DOMAIN paneTimers |->
            IF i = activePane
            THEN [pending |-> TRUE, content |-> newContent,
                  name |-> sortedPanes[activePane + 1].name,
                  onChange |-> sortedPanes[activePane + 1].onChange,
                  remaining |-> DebounceTicks]
            ELSE NoTimer]
    /\ edits' = edits + 1
    /\ UNCHANGED <<panes, activePane, propActivePane, onChangeCall>>
    /\ UNCHANGED <<composerVars, drgVars, query>>

\* the CodeMirror onChange of the active pane: handleContentChange(index, value)
handleContentChange(newContent) ==
    /\ multiPaneMounted
    /\ edits < MaxEdits
    /\ activePane < Len(sortedPanes)
    /\ paneTimers' = [paneTimers EXCEPT ![activePane] =
            [pending |-> TRUE, content |-> newContent,
             name |-> sortedPanes[activePane + 1].name,
             onChange |-> sortedPanes[activePane + 1].onChange,
             remaining |-> DebounceTicks]]
    /\ edits' = edits + 1
    /\ UNCHANGED <<panes, activePane, propActivePane, onChangeCall>>
    /\ UNCHANGED <<composerVars, drgVars, query>>

\* the callback of the timer armed for pane index i
PaneTimerFire(i) ==
    /\ paneTimers[i].pending
    /\ paneTimers[i].remaining = 0
    /\ panes' = CommitContent(panes, paneTimers[i].name, paneTimers[i].content)
    /\ onChangeCall' = IF paneTimers[i].onChange
                       THEN [called |-> TRUE, name |-> paneTimers[i].name,
                             value |-> paneTimers[i].content]
                       ELSE onChangeCall
    /\ paneTimers' = [paneTimers EXCEPT ![i] = NoTimer]
    /\ UNCHANGED <<activePane, propActivePane, edits>>
    /\ UNCHANGED <<composerVars, drgVars, query>>

\* a tab click: handlePaneChange(index)
handlePaneChange(index) ==
    /\ multiPaneMounted
    /\ index < Len(sortedPanes)
    /\ index # activePane
    /\ activePane' = index
    /\ UNCHANGED <<panes, paneTimers, propActivePane, onChangeCall, edits>>
    /\ UNCHANGED <<composerVars, drgVars, query>>

\* the effects of one render on activePane. Both effects read the activePane of
\* the render; their setActivePane calls are batched, the later call (the
\* bounds effect's setActivePane(0)) deciding the next state. A render whose
\* effects call nothing is the end of the cascade.
SyncFromProp == propActivePane # NoActivePaneProp /\ propActivePane # activePane
ResetOutOfBounds == activePane >= Len(sortedPanes) /\ Len(sortedPanes) > 0

ActivePaneEffects ==
    /\ multiPaneMounted
    /\ SyncFromProp \/ ResetOutOfBounds
    /\ activePane' = IF ResetOutOfBounds THEN 0 ELSE propActivePane
    /\ UNCHANGED <<panes, paneTimers, propActivePane, onChangeCall, edits>>
    /\ UNCHANGED <<composerVars, drgVars, query>>

(***************************************************************************)
(* DynamicRadioGroup.                                                      *)
(***************************************************************************)
Fields == {"environment", "other"}

\* typeof v === "string" && v.startsWith("$")
IsFieldReference(raw) ==
    raw.t = "string" /\ Len(raw.s) >= 1 /\ SubSeq(raw.s, 1, 1) = "$"

\* v.substring(1)
ReferencedField(raw) == SubSeq(raw.s, 2, Len(raw.s))

\* getFieldValue(values, fieldName): the entry of the field, undefined without one
getFieldValue(values, fieldName) ==
    IF fieldName \in DOMAIN values THEN values[fieldName] ELSE JsUndefined

\* the useMemo: the fields the '$'-prefixed parameter values name, in order
RECURSIVE RelevantOf(_)
RelevantOf(entries) ==
    IF entries = <<>> THEN <<>>
    ELSE IF IsFieldReference(Head(entries).v)
    THEN <<ReferencedField(Head(entries).v)>> \o RelevantOf(Tail(entries))
    ELSE RelevantOf(Tail(entries))

relevantFieldNames == IF ~retrieverParams.present THEN <<>> ELSE RelevantOf(retrieverParams.entries)

IsRelevantField(f) == \E i \in 1..Len(relevantFieldNames) : relevantFieldNames[i] = f

\* the value a parameter resolves to
ResolveParam(raw, values) ==
    IF IsFieldReference(raw) THEN getFieldValue(values, ReferencedField(raw)) ELSE raw

IsPrimitive(v) == v.t \in {"string", "number", "boolean"}

SerializeParamAsJson(resolved) == JsonStringify(resolved)

\* what params.append receives for a resolved value that is neither null nor undefined
SerializeParam(resolved) ==
    IF IsPrimitive(resolved) THEN JsToString(resolved) ELSE JsonStringify(resolved)

\* the Object.entries(props.retrieverParams).forEach of fetchOptions
RECURSIVE AppendParams(_, _)
AppendParams(entries, values) ==
    IF entries = <<>> THEN <<>>
    ELSE LET resolved == ResolveParam(Head(entries).v, values)
         IN  IF resolved.t \in {"undefined", "null"}
             THEN AppendParams(Tail(entries), values)
             ELSE <<[k |-> Head(entries).k, v |-> SerializeParam(resolved)]>>
                    \o AppendParams(Tail(entries), values)

\* the URLSearchParams entries of the request
BuildQuery(params, values) ==
    IF params.present THEN AppendParams(params.entries, values) ELSE <<>>

NoError == [kind |-> "none", message |-> "", status_code |-> 0, details |-> ""]
ConfigError == [kind |-> "structured", message |-> "Retriever path is not set",
                status_code |-> 400, details |-> ""]
\* a non-2xx response with a JSON body {message, details}
HttpError == [kind |-> "structured", message |-> "retriever failed",
              status_code |-> 500, details |-> "trace"]
\* a non-2xx response whose body does not parse: errorData stays {}
HttpErrorNoBody == [kind |-> "structured", message |-> "Failed to retrieve radio options",
                    status_code |-> 500, details |-> "{}"]
\* the Error object a rejected fetch(), a rejected response.json() or a throwing
\* data.some hands to the catch block
ThrownError == [kind |-> "exception", message |-> "", status_code |-> 0, details |-> ""]

Option(v, deprecated) == [value |-> v, label |-> v, isDeprecated |-> deprecated]

\* the option list the back end answers a request with: it depends on the env parameter
ServerData(q) ==
    IF \E i \in 1..Len(q) : q[i].k = "env" /\ q[i].v = "gpu"
    THEN <<Option("b", FALSE)>>
    ELSE IF \E i \in 1..Len(q) : q[i].k = "env" /\ q[i].v = "cpu"
    THEN <<Option("a", FALSE), Option("b", FALSE)>>
    ELSE <<Option("a", TRUE)>>

HasOption(opts, v) == \E i \in 1..Len(opts) : opts[i].value = v

\* !!value && !data.some((o) => o.value === value), value being the closure's
InvalidAfterFetch(closureValue, data) == closureValue # "" /\ ~HasOption(data, closureValue)

FetchOptionsCallWithoutPathCheck(closureValue, refValues) ==
    /\ fetchStarts < MaxFetchCalls
    /\ fetchStarts' = fetchStarts + 1
    /\ isLoading' = TRUE
    /\ inflight' = Append(inflight,
            [value |-> closureValue, query |-> BuildQuery(retrieverParams, refValues)])
    /\ UNCHANGED error

FetchOptionsCallBeforeRefUpdate(closureValue, refValues) ==
    /\ fetchStarts < MaxFetchCalls
    /\ fetchStarts' = fetchStarts + 1
    /\ IF retrieverPath = ""
       THEN /\ error' = ConfigError
            /\ UNCHANGED <<isLoading, inflight>>
       ELSE /\ isLoading' = TRUE
            /\ inflight' = Append(inflight,
                    [value |-> closureValue, query |-> BuildQuery(retrieverParams, formValuesRef)])
            /\ UNCHANGED error

\* fetchOptions() up to its await: closureValue is the value the callback closed
\* over, refValues is formValuesRef.current
FetchOptionsCall(closureValue, refValues) ==
    /\ fetchStarts < MaxFetchCalls
    /\ fetchStarts' = fetchStarts + 1
    /\ IF retrieverPath = ""
       THEN /\ error' = ConfigError
            /\ UNCHANGED <<isLoading, inflight>>
       ELSE /\ isLoading' = TRUE
            /\ inflight' = Append(inflight,
                    [value |-> closureValue, query |-> BuildQuery(retrieverParams, refValues)])
            /\ UNCHANGED error

NoFetchOptionsCall == UNCHANGED <<fetchStarts, isLoading, inflight, error>>

RelevantValueChangedOfAnyField(values) ==
    \E f \in Fields : getFieldValue(values, f) # prevRelevantValues[f]

\* the dependency effect's loop: some relevant field differs from its previous value
RelevantValueChanged(values) ==
    \E i \in 1..Len(relevantFieldNames) :
        getFieldValue(values, relevantFieldNames[i]) # prevRelevantValues[relevantFieldNames[i]]

\* the dependency effect runs its loop (it returns early otherwise)
DependencyEffectActive(shown) ==
    shown /\ retrieverParams.present /\ Len(relevantFieldNames) > 0

\* a render with context values fv, props.isShown shown and state value val, and the
\* effects and re-renders that follow it; initDepsChanged says whether isShown or
\* fetchOptions differ from the previous render's (or this is the mount)
RenderAndEffects(fv, shown, val, initDepsChanged) ==
    LET depTriggered == DependencyEffectActive(shown) /\ RelevantValueChanged(fv) /\ isEvaluated
        initTriggered == initDepsChanged /\ shown /\ ~isEvaluated
    IN  /\ formValuesRef' = fv
        /\ prevRelevantValues' =
              IF DependencyEffectActive(shown)
              THEN [f \in Fields |-> IF IsRelevantField(f) THEN getFieldValue(fv, f)
                                     ELSE prevRelevantValues[f]]
              ELSE prevRelevantValues
        /\ isEvaluated' = IF depTriggered THEN FALSE ELSE isEvaluated
        /\ options' = IF depTriggered THEN <<>> ELSE options
        /\ timers' = IF depTriggered
                     THEN Append(timers, [remaining |-> DebounceTicks, value |-> val])
                     ELSE timers
        /\ IF depTriggered \/ initTriggered
           THEN FetchOptionsCall(val, fv)
           ELSE NoFetchOptionsCall

DrgProps == <<retrieverPath, retrieverParams>>

\* the first render and the mount effects
Mount ==
    /\ ~mounted
    /\ mounted' = TRUE
    /\ RenderAndEffects(formValues, isShown, value, TRUE)
    /\ UNCHANGED <<value, isValueInvalid, formValues, propsValue, isShown>>
    /\ UNCHANGED <<DrgProps, paneVars, composerVars, query>>

FieldValues(f) ==
    IF f = "environment" THEN {JsString("cpu"), JsString("gpu")}
    ELSE {JsUndefined, JsString("z")}

\* another field writes v to FormValues[f]
ChangeFormValue(f, v) ==
    /\ mounted
    /\ v # formValues[f]
    /\ formValues' = [formValues EXCEPT ![f] = v]
    /\ RenderAndEffects(formValues', isShown, value, FALSE)
    /\ UNCHANGED <<mounted, value, isValueInvalid, propsValue, isShown>>
    /\ UNCHANGED <<DrgProps, paneVars, composerVars, query>>

\* the parent shows or hides the field
ChangeShown ==
    /\ mounted
    /\ isShown' = ~isShown
    /\ RenderAndEffects(formValues, isShown', value, TRUE)
    /\ UNCHANGED <<mounted, value, isValueInvalid, formValues, propsValue>>
    /\ UNCHANGED <<DrgProps, paneVars, composerVars, query>>

\* the values the parent passes as props.value ("" stands for none)
PropsValues == {"", "a"}

\* the parent passes another props.value: the effect setValue(props.value || "")
ChangePropsValue(v) ==
    /\ mounted
    /\ v # propsValue
    /\ propsValue' = v
    /\ value' = v
    /\ RenderAndEffects(formValues, isShown, v, v # value)
    /\ UNCHANGED <<mounted, isValueInvalid, formValues, isShown>>
    /\ UNCHANGED <<DrgProps, paneVars, composerVars, query>>

\* the user picks the radio button of option v: handleValueChange(event)
handleValueChange(v) ==
    /\ mounted /\ isShown /\ ~isLoading
    /\ v # value
    /\ \E i \in 1..Len(options) : options[i].value = v /\ ~options[i].isDeprecated
    /\ value' = v
    /\ isValueInvalid' = FALSE
    /\ RenderAndEffects(formValues, isShown, v, TRUE)
    /\ UNCHANGED <<mounted, formValues, propsValue, isShown>>
    /\ UNCHANGED <<DrgProps, paneVars, composerVars, query>>

RemoveAt(s, i) == SubSeq(s, 1, i - 1) \o SubSeq(s, i + 1, Len(s))

\* the callback of the i-th pending debounce timer: fetchOptions() of its render
DebounceTimerFire(i) ==
    /\ i \in 1..Len(timers)
    /\ timers[i].remaining = 0
    /\ timers' = RemoveAt(timers, i)
    /\ FetchOptionsCall(timers[i].value, formValuesRef)
    /\ UNCHANGED <<mounted, options, value, isEvaluated, isValueInvalid, formValues,
                   formValuesRef, prevRelevantValues, propsValue, isShown>>
    /\ UNCHANGED <<DrgProps, paneVars, composerVars, query>>

FetchOutcomes == {"ok", "ok_not_array", "http_error", "http_error_no_body",
                  "network_error", "bad_json"}

IsFailure(outcome) == outcome \in {"http_error", "http_error_no_body", "network_error", "bad_json"}

\* the error a fetch that ends with outcome hands to props.setError
ErrorOf(outcome) ==
    CASE outcome = "http_error" -> HttpError
      [] outcome = "http_error_no_body" -> HttpErrorNoBody
      [] OTHER -> ThrownError

FetchResolveDroppingStale(i, outcome) ==
    /\ i \in 1..Len(inflight)
    /\ inflight' = RemoveAt(inflight, i)
    /\ isLoading' = FALSE
    /\ IF outcome = "ok" /\ inflight[i].query = BuildQuery(retrieverParams, formValuesRef)
       THEN /\ options' = ServerData(inflight[i].query)
            /\ isEvaluated' = TRUE
            /\ isValueInvalid' = InvalidAfterFetch(inflight[i].value, ServerData(inflight[i].query))
            /\ UNCHANGED error
       ELSE IF outcome = "ok"
       THEN UNCHANGED <<options, isEvaluated, isValueInvalid, error>>
       ELSE IF outcome = "ok_not_array"
       THEN /\ options' = <<>>
            /\ isEvaluated' = TRUE
            /\ error' = ErrorOf(outcome)
            /\ UNCHANGED isValueInvalid
       ELSE /\ error' = ErrorOf(outcome)
            /\ UNCHANGED <<options, isEvaluated, isValueInvalid>>
    /\ UNCHANGED <<mounted, value, formValues, formValuesRef, prevRelevantValues,
                   propsValue, isShown, timers, fetchStarts>>
    /\ UNCHANGED <<DrgProps, paneVars, composerVars, query>>

\* fetchOptions() from its await to the end of its finally block, for the i-th
\* fetch in flight
FetchResolve(i, outcome) ==
    /\ i \in 1..Len(inflight)
    /\ inflight' = RemoveAt(inflight, i)
    /\ isLoading' = FALSE
    /\ IF outcome = "ok"
       THEN /\ options' = ServerData(inflight[i].query)
            /\ isEvaluated' = TRUE
            /\ isValueInvalid' = InvalidAfterFetch(inflight[i].value, ServerData(inflight[i].query))
            /\ UNCHANGED error
       ELSE IF outcome = "ok_not_array"
       THEN /\ options' = <<>>
            /\ isEvaluated' = TRUE
            /\ error' = ErrorOf(outcome)
            /\ UNCHANGED isValueInvalid
       ELSE /\ error' = ErrorOf(outcome)
            /\ UNCHANGED <<options, isEvaluated, isValueInvalid>>
    /\ UNCHANGED <<mounted, value, formValues, formValuesRef, prevRelevantValues,
                   propsValue, isShown, timers, fetchStarts>>
    /\ UNCHANGED <<DrgProps, paneVars, composerVars, query>>

\* <ErrorAlert onClose={() => setError(null)} />
ErrorAlertClose ==
    /\ error # NoError
    /\ error' = NoError
    /\ UNCHANGED <<mounted, options, value, isLoading, isEvaluated, isValueInvalid,
                   formValues, formValuesRef, prevRelevantValues, propsValue, isShown,
                   timers, inflight, fetchStarts>>
    /\ UNCHANGED <<DrgProps, paneVars, composerVars, query>>

(***************************************************************************)
(* Time.                                                                   *)
(***************************************************************************)
PaneIndices == 0..(MaxPanes - 1)

NoTimerDue ==
    /\ \A i \in PaneIndices : ~(paneTimers[i].pending /\ paneTimers[i].remaining = 0)
    /\ \A i \in 1..Len(timers) : timers[i].remaining # 0

SomeTimerPending ==
    \/ \E i \in PaneIndices : paneTimers[i].pending
    \/ timers # <<>>

\* 100 ms pass: a timer that is due fires before time moves on
Tick ==
    /\ NoTimerDue
    /\ SomeTimerPending
    /\ paneTimers' = [i \in PaneIndices |->
                        IF paneTimers[i].pending
                        THEN [paneTimers[i] EXCEPT !.remaining = @ - 1]
                        ELSE paneTimers[i]]
    /\ timers' = [i \in 1..Len(timers) |-> [timers[i] EXCEPT !.remaining = @ - 1]]
    /\ UNCHANGED <<panes, activePane, propActivePane, onChangeCall, edits>>
    /\ UNCHANGED <<mounted, options, value, isLoading, isEvaluated, isValueInvalid,
                   formValues, formValuesRef, prevRelevantValues, propsValue, isShown,
                   inflight, error, fetchStarts>>
    /\ UNCHANGED <<DrgProps, composerVars, query>>

(***************************************************************************)
(* Initial states.                                                         *)
(***************************************************************************)
PaneNameAt == <<"extra.txt", "driver", "notes.md", "run_command", "job.log">>
PaneContentAt == <<"x", "echo hi", NoContent, "x", "x">>
PaneOrders == {-1, 0, 1, 10001}

Pane(name, order, content) ==
    [name |-> name, preview_name |-> name, order |-> order, content |-> content,
     onChange |-> (name = "driver")]

\* the pane lists of up to MaxPanes panes, pane names identifying the panes
PaneLists ==
    UNION {{[i \in 1..n |-> Pane(PaneNameAt[i], orders[i], PaneContentAt[i])] :
                orders \in [1..n -> PaneOrders]} : n \in 0..MaxPanes}

NoFiles == [present |-> FALSE, items |-> <<>>]
Files(items) == [present |-> TRUE, items |-> items]

DefaultRerunInfo ==
    <<[k |-> "name", v |-> JsString("job1")],
      [k |-> "location", v |-> JsString("/scratch/job1")],
      [k |-> "driver", v |-> JsString("old driver")]>>

DefaultForm ==
    <<FormDataEntry("name", "job1", FALSE), FormDataEntry("location", "/scratch/job1", FALSE)>>

DefaultEnvironment == [present |-> TRUE, src |-> "/envs/generic"]

InitPaneState ==
    /\ paneTimers = [i \in PaneIndices |-> NoTimer]
    /\ activePane = 0
    /\ propActivePane = NoActivePaneProp
    /\ onChangeCall = NoCall
    /\ edits = 0

InitComposerState ==
    /\ status = "idle"
    /\ submitCalls = 0
    /\ acked = 0
    /\ lastFormData = NoFormData
    /\ alertMsg = NoAlert

DrgParams ==
    [present |-> TRUE,
     entries |-> <<[k |-> "env", v |-> JsString("$environment")],
                   [k |-> "mode", v |-> JsString("fast")]>>]
NoParams == [present |-> FALSE, entries |-> <<>>]

InitialOptions == <<Option("a", FALSE)>>

\* the field before its first render
InitDrgState ==
    /\ mounted = FALSE
    /\ options = InitialOptions
    /\ value = propsValue
    /\ isLoading = FALSE
    /\ isEvaluated = FALSE
    /\ isValueInvalid = FALSE
    /\ formValuesRef = formValues
    /\ prevRelevantValues = [f \in Fields |-> JsUndefined]
    /\ timers = <<>>
    /\ inflight = <<>>
    /\ error = NoError
    /\ fetchStarts = 0

NoQuery == [built |-> FALSE, entries |-> <<>>]

\* a page without a DynamicRadioGroup
NoDrg ==
    /\ propsValue = ""
    /\ isShown = FALSE
    /\ retrieverPath = ""
    /\ retrieverParams = NoParams
    /\ formValues = [f \in Fields |-> JsUndefined]
    /\ InitDrgState
    /\ query = NoQuery

\* a page whose composer is idle and holds the panes of the specification's example
NoComposer ==
    /\ panes = <<Pane("driver", 1, "echo hi"), Pane("extra.txt", 2, "x")>>
    /\ InitPaneState
    /\ jobStatus = "fresh"
    /\ rerunInfo = DefaultRerunInfo
    /\ form = DefaultForm
    /\ globalFiles = NoFiles
    /\ environment = DefaultEnvironment
    /\ showSplitScreenModal = FALSE
    /\ multiPaneMounted = FALSE
    /\ InitComposerState

\* ---- the editor and the payload: every pane list, both modes
InitPanes ==
    /\ panes \in PaneLists
    /\ InitPaneState
    /\ jobStatus \in {"rerun", "fresh"}
    /\ rerunInfo = DefaultRerunInfo
    /\ form = DefaultForm
    /\ globalFiles = Files(<<"data.csv">>)
    /\ environment = DefaultEnvironment
    /\ showSplitScreenModal = TRUE
    /\ multiPaneMounted = TRUE
    /\ InitComposerState
    /\ NoDrg

NextPanes ==
    \/ \E i \in PaneIndices : handlePaneChange(i)
    \/ handleSubmit

SpecPanes == InitPanes /\ [][NextPanes]_vars

\* ---- the submission guards: every mode, job name, file list and transport status
RerunInfos ==
    {<<[k |-> "name", v |-> n], [k |-> "location", v |-> JsString("/scratch/job1")]>> :
        n \in {JsString("job1"), JsString(""), JsNull}}
    \cup {<<[k |-> "location", v |-> JsString("/scratch/job1")]>>}

Forms ==
    {<<FormDataEntry("name", n, FALSE), FormDataEntry("location", "/scratch/job1", FALSE)>> :
        n \in {"job1", ""}}
    \cup {<<FormDataEntry("location", "/scratch/job1", FALSE)>>}

FileLists == {NoFiles, Files(<<>>), Files(<<"a.dat", "b.dat">>)}

Environments == {[present |-> FALSE, src |-> ""], [present |-> TRUE, src |-> ""], DefaultEnvironment}

InitSubmit ==
    /\ panes = <<Pane("driver", 1, "echo hi"), Pane("extra.txt", 2, "x"),
                 Pane("run_command", 0, "sbatch")>>
    /\ InitPaneState
    /\ jobStatus \in {"rerun", "fresh"}
    /\ IF jobStatus = "rerun"
       THEN rerunInfo \in RerunInfos /\ form = DefaultForm /\ environment = DefaultEnvironment
       ELSE rerunInfo = DefaultRerunInfo /\ form \in Forms /\ environment \in Environments
    /\ globalFiles \in FileLists
    /\ showSplitScreenModal = FALSE
    /\ multiPaneMounted \in BOOLEAN
    /\ InitComposerState
    /\ NoDrg

NextSubmit ==
    \/ handleSubmit
    \/ handlePreview
    \/ handleCloseSplitScreenModal
    \/ TransportPickUp
    \/ TransportAdvance

SpecSubmit == InitSubmit /\ [][NextSubmit]_vars

\* ---- the dynamic radio group with a retriever
InitDrg ==
    /\ propsValue = ""
    /\ isShown \in BOOLEAN
    /\ retrieverPath = "envs/list"
    /\ retrieverParams = DrgParams
    /\ formValues = [f \in Fields |-> IF f = "environment" THEN JsString("cpu") ELSE JsUndefined]
    /\ InitDrgState
    /\ query = NoQuery
    /\ NoComposer

NextDrg ==
    \/ Mount
    \/ \E v \in FieldValues("environment") : ChangeFormValue("environment", v)
    \/ ChangeShown
    \/ \E v \in PropsValues : ChangePropsValue(v)
    \/ \E v \in {"a", "b"} : handleValueChange(v)
    \/ \E i \in 1..MaxFetchCalls : DebounceTimerFire(i)
    \/ \E i \in 1..MaxFetchCalls : \E outcome \in FetchOutcomes : FetchResolve(i, outcome)
    \/ ErrorAlertClose
    \/ Tick

Spec == InitDrg /\ [][NextDrg]_vars

\* ---- the dynamic radio group without a retriever: no request is ever in flight
InitNoRetriever ==
    /\ propsValue \in PropsValues
    /\ isShown \in BOOLEAN
    /\ retrieverPath = ""
    /\ retrieverParams \in {DrgParams, NoParams}
    /\ formValues = [f \in Fields |-> IF f = "environment" THEN JsString("cpu") ELSE JsUndefined]
    /\ InitDrgState
    /\ query = NoQuery
    /\ NoComposer

NextNoRetriever ==
    \/ Mount
    \/ \E f \in Fields : \E v \in FieldValues(f) : ChangeFormValue(f, v)
    \/ ChangeShown
    \/ \E v \in PropsValues : ChangePropsValue(v)
    \/ \E v \in {"a", "b"} : handleValueChange(v)
    \/ ErrorAlertClose

SpecNoRetriever == InitNoRetriever /\ [][NextNoRetriever]_vars

\* ---- the editor's debounced commits on one pane list with a hidden pane
InitEdit ==
    /\ panes = <<Pane("extra.txt", 0, "x"), Pane("driver", 1, "echo hi"),
                 Pane("job.log", -1, NoContent)>>
    /\ InitPaneState
    /\ jobStatus \in {"rerun", "fresh"}
    /\ rerunInfo = DefaultRerunInfo
    /\ form = DefaultForm
    /\ globalFiles = NoFiles
    /\ environment = DefaultEnvironment
    /\ showSplitScreenModal = TRUE
    /\ multiPaneMounted = TRUE
    /\ InitComposerState
    /\ NoDrg

NextEdit ==
    \/ \E c \in Contents : handleContentChange(c)
    \/ \E i \in PaneIndices : PaneTimerFire(i)
    \/ \E i \in PaneIndices : handlePaneChange(i)
    \/ Tick
    \/ handleSubmit

SpecEdit == InitEdit /\ [][NextEdit]_vars

\* ---- the query of fetchOptions for every parameter mapping and every FormValues
ParamKeyAt == <<"env", "mode", "n">>

RawParamValues ==
    {JsString("$environment"), JsString("$other"), JsString("$missing"), JsString("$"),
     JsString("fast"), JsString(""), JsNumber(4), JsBoolean(TRUE), JsNull, JsUndefined,
     JsArray(<<"a", "b">>)}

ParamMappings ==
    {NoParams} \cup
    UNION {{[present |-> TRUE, entries |-> [i \in 1..n |-> [k |-> ParamKeyAt[i], v |-> raws[i]]]] :
                raws \in [1..n -> RawParamValues]} : n \in 0..MaxParams}

QueryFieldValues(f) ==
    IF f = "environment"
    THEN {JsUndefined, JsNull, JsString("gpu"), JsString(""), JsNumber(0), JsBoolean(FALSE),
          JsArray(<<"a">>), JsFile("input.dat")}
    ELSE {JsUndefined, JsString("z")}

InitQuery ==
    /\ propsValue = ""
    /\ isShown = TRUE
    /\ retrieverPath = "envs/list"
    /\ retrieverParams \in ParamMappings
    /\ formValues \in {[f \in Fields |-> IF f = "environment" THEN e ELSE o] :
                          e \in QueryFieldValues("environment"), o \in QueryFieldValues("other")}
    /\ InitDrgState
    /\ query = NoQuery
    /\ NoComposer

\* lines 347-362 of fetchOptions on their own: new URLSearchParams() and its appends
BuildQueryStep ==
    /\ ~query.built
    /\ query' = [built |-> TRUE, entries |-> BuildQuery(retrieverParams, formValuesRef)]
    /\ UNCHANGED <<paneVars, composerVars, drgVars>>

NextQuery == BuildQueryStep

SpecQuery == InitQuery /\ [][NextQuery]_vars

(***************************************************************************)
(* Properties of the submission guards, checked under SpecSubmit.          *)
(***************************************************************************)
\* C1: while the transport status is 'submitting' or 'running' no step invokes
\* submitJob: the number of submitJob calls and the payload handed to it stay as
\* they are, in rerun and in fresh mode and whatever the form holds.
C1_NoSubmitWhileRunning ==
    [][isJobRunning => (submitCalls' = submitCalls /\ lastFormData' = lastFormData)]_vars

\* a submit event has been refused with the running-job alert after one job went out
C1_Witness ==
    /\ isJobRunning
    /\ alertMsg = AlertRunning
    /\ submitCalls = 1

\* C2: while the payload getFormData assembles carries a name equal to the empty
\* string, no step invokes submitJob.
C2_NoSubmitWithEmptyName ==
    [][(getFormData.ok /\ NameIsEmpty(getFormData.formData))
          => (submitCalls' = submitCalls /\ lastFormData' = lastFormData)]_vars

\* a rerun whose stored name is "" has been refused with the job-name alert
C2_Witness ==
    /\ jobStatus = "rerun"
    /\ ~isJobRunning
    /\ getFormData.ok /\ NameIsEmpty(getFormData.formData)
    /\ alertMsg = AlertName
    /\ submitCalls = 0

(***************************************************************************)
(* Properties of the pane order and of the payload, checked under          *)
(* SpecPanes.  Pane names identify the panes there.                        *)
(***************************************************************************)
\* the position in props.panes of the pane called name
OriginalIndex(name) == CHOOSE i \in 1..Len(panes) : panes[i].name = name

\* the order a pane is sorted by: its order, or for order 0 the synthetic index
EffectiveOrder(i) ==
    IF panes[i].order = 0 THEN zeroOrderIndex + (i - 1) ELSE panes[i].order

\* s has pat as a substring
Contains(s, pat) ==
    \E i \in 1..(Len(s) - Len(pat) + 1) : SubSeq(s, i, i + Len(pat) - 1) = pat

\* the key of name as JSON.stringify writes it into an object
JsonKey(name) == "\"" \o name \o "\":"

DistinguishedNames == {"driver", "run_command"}

\* C3: in rerun mode the payload getFormData assembles holds every snapshot of
\* getPaneRefs named 'driver' or 'run_command' as a direct text field with that
\* pane's content, and exactly one field 'additional_files' whose value is the
\* JSON object name -> content of the remaining snapshots in their order; the
\* distinguished names are no keys of it and it is there without other panes.
C3_RerunPayload ==
    (jobStatus = "rerun" /\ getFormData.ok) =>
        LET fd == getFormData.formData
            refs == getPaneRefs(panes)
            rest == SelectSeq(refs, LAMBDA r : r.name \notin DistinguishedNames)
            bundle == FormDataGet(fd, "additional_files")
        IN  /\ \A k \in 1..Len(refs) :
                  refs[k].name \in DistinguishedNames =>
                     FormDataGet(fd, refs[k].name) =
                        [found |-> TRUE, v |-> refs[k].value, file |-> FALSE]
            /\ Cardinality({i \in 1..Len(fd) : fd[i].k = "additional_files"}) = 1
            /\ bundle.found /\ ~bundle.file
            /\ bundle.v = JsonStringifyObject([k \in 1..Len(rest) |->
                                                 [k |-> rest[k].name, v |-> rest[k].value]])
            /\ \A n \in DistinguishedNames : ~Contains(bundle.v, JsonKey(n))

\* a rerun went out with both distinguished panes and two other panes displayed
C3_Witness ==
    /\ jobStatus = "rerun"
    /\ submitCalls > 0
    /\ lastFormData = getFormData.formData
    /\ Len(getPaneRefs(panes)) = 4
    /\ FormDataGet(lastFormData, "driver").v = "echo hi"
    /\ FormDataGet(lastFormData, "additional_files").v = "{\"extra.txt\":\"x\",\"notes.md\":\"\"}"

\* a rerun went out with no pane but the driver: additional_files is "{}"
C3_WitnessEmptyBundle ==
    /\ jobStatus = "rerun"
    /\ submitCalls > 0
    /\ FormDataGet(lastFormData, "additional_files") = [found |-> TRUE, v |-> "{}", file |-> FALSE]

\* fd carries nothing of the panes whose order is -1
PayloadOmitsHiddenPanes(fd) ==
    \A i \in 1..Len(panes) :
        panes[i].order = -1 =>
            /\ ~Contains(FormDataGet(fd, "additional_files").v, JsonKey(panes[i].name))
            /\ panes[i].name \in DistinguishedNames =>
                  LET got == FormDataGet(fd, panes[i].name)
                  IN  got.found =>
                         /\ jobStatus = "rerun"
                         /\ ObjHas(rerunInfo, panes[i].name)
                         /\ got.v = JsToString(ObjGet(rerunInfo, panes[i].name))

\* C4: getSortedPanes returns each pane whose order is not -1 once and no other
\* pane, in ascending effective order, panes of equal effective order in their
\* original array order; getPaneRefs returns the snapshots of exactly these panes
\* and a submitted payload carries nothing of a pane whose order is -1.
C4_SortedStableDisplayed ==
    LET sp == getSortedPanes(panes)
        refs == getPaneRefs(panes)
        at(k) == OriginalIndex(sp[k].name)
    IN  /\ \A k \in 1..Len(sp) : panes[at(k)].order # -1
        /\ \A i \in 1..Len(panes) :
              panes[i].order # -1 =>
                 Cardinality({k \in 1..Len(sp) : sp[k].name = panes[i].name}) = 1
        /\ \A k, l \in 1..Len(sp) :
              k < l => /\ EffectiveOrder(at(k)) <= EffectiveOrder(at(l))
                       /\ EffectiveOrder(at(k)) = EffectiveOrder(at(l)) => at(k) < at(l)
        /\ Len(refs) = Len(sp)
        /\ \A k \in 1..Len(sp) :
              /\ refs[k].name = sp[k].name
              /\ refs[k].value = ContentOrEmpty(panes[at(k)].content)
        /\ submitCalls > 0 => PayloadOmitsHiddenPanes(lastFormData)

\* a payload went out for a list with a hidden driver pane, two panes of equal
\* effective order and a pane that sorts ahead of an earlier one
C4_Witness ==
    /\ submitCalls > 0
    /\ Len(panes) = 4
    /\ panes[2].order = -1
    /\ panes[1].order = 10001 /\ panes[3].order = 1 /\ panes[4].order = 1
    /\ getSortedPanes(panes)[1].name = "notes.md"

\* C10: getSortedPanes puts every pane whose order is 0 behind every pane whose
\* order is neither 0 nor -1, and the order-0 panes follow one another in their
\* original array order.
C10_ZeroOrderPanesLast ==
    LET sp == getSortedPanes(panes)
        at(k) == OriginalIndex(sp[k].name)
    IN  \A k, l \in 1..Len(sp) :
            /\ (panes[at(k)].order = 0 /\ panes[at(l)].order \notin {0, -1}) => l < k
            /\ (panes[at(k)].order = 0 /\ panes[at(l)].order = 0 /\ k < l) => at(k) < at(l)

(***************************************************************************)
(* Properties of the dynamic radio group.                                  *)
(***************************************************************************)
\* a field the retriever parameters refer to changes on a shown, evaluated group
DependencyChangeStep ==
    /\ isShown /\ isEvaluated
    /\ \E v \in FieldValues("environment") : ChangeFormValue("environment", v)

\* C5 (under Spec): a dependency change on a shown, evaluated group issues no
\* fetch at once; it leaves one pending timer armed with the full 300 ms, and
\* the one fetch of the burst is the one that timer issues when it fires.
C5_OneDebouncedFetch ==
    [][/\ DependencyChangeStep =>
            /\ fetchStarts' = fetchStarts
            /\ Len(timers') = 1
            /\ timers'[1].remaining = DebounceTicks
       /\ (\E i \in 1..MaxFetchCalls : DebounceTimerFire(i)) =>
            /\ fetchStarts' = fetchStarts + 1
            /\ timers' = <<>>]_vars

\* C6 (under Spec): when a fetch resolves successfully the invalid-selection flag
\* is true exactly if the value the group holds at that moment is non-empty and
\* is the value of no option of the new option set.
C6_InvalidFlagOfHeldValue ==
    [][(\E i \in 1..MaxFetchCalls : FetchResolve(i, "ok")) =>
            (isValueInvalid' <=> (value' # "" /\ ~HasOption(options', value')))]_vars

\* a fetch of the group ends in a failure
FailedFetchStep ==
    \E i \in 1..MaxFetchCalls : \E outcome \in FetchOutcomes :
        IsFailure(outcome) /\ FetchResolve(i, outcome)

\* C9 (under Spec): a failed fetch reports an error, ends with the loading flag
\* false, does not set the evaluated flag and displays the option set that was
\* displayed before the fetch was triggered: neither the step that triggers a
\* fetch nor the step in which it fails changes the options.
C9_FailedFetchKeepsOptions ==
    [][/\ fetchStarts' # fetchStarts => options' = options
       /\ FailedFetchStep =>
            /\ error' # NoError
            /\ ~isLoading'
            /\ isEvaluated' = isEvaluated
            /\ options' = options]_vars

\* C8 (under SpecNoRetriever): without a retriever path every invocation of
\* fetchOptions reports the structured error with status_code 400, puts no
\* request in flight, leaves the loading flag false and leaves the options, the
\* evaluated flag and the invalid flag as they are.
C8_NoRetrieverPath ==
    [][fetchStarts' # fetchStarts =>
            /\ error' = [kind |-> "structured", message |-> "Retriever path is not set",
                         status_code |-> 400, details |-> ""]
            /\ inflight' = <<>> /\ inflight = <<>>
            /\ ~isLoading' /\ ~isLoading
            /\ options' = options
            /\ isEvaluated' = isEvaluated
            /\ isValueInvalid' = isValueInvalid]_vars

\* fetchOptions ran on a group without a retriever path and its error is in the sink
C8_Witness ==
    /\ retrieverPath = ""
    /\ mounted /\ isShown
    /\ fetchStarts > 1
    /\ error = ConfigError
    /\ ~isLoading /\ inflight = <<>> /\ ~isEvaluated /\ options = InitialOptions

\* C7 (under SpecQuery): the query holds, in the order of the parameters, one
\* entry for each parameter whose resolved value is neither null nor undefined
\* and none for the others; the resolved value is the raw value, or for a
\* '$'-prefixed string the FormValues entry of the field named behind the '$';
\* strings, numbers and booleans are written plainly, other values as JSON.
C7_QueryOfParams ==
    query.built =>
        LET given == IF retrieverParams.present THEN retrieverParams.entries ELSE <<>>
            Resolved(raw) ==
                IF raw.t = "string" /\ Len(raw.s) >= 1 /\ SubSeq(raw.s, 1, 1) = "$"
                THEN LET field == SubSeq(raw.s, 2, Len(raw.s))
                     IN  IF field \in DOMAIN formValues THEN formValues[field] ELSE JsUndefined
                ELSE raw
            Written(v) ==
                CASE v.t = "string" -> v.s
                  [] v.t = "number" -> ToString(v.n)
                  [] v.t = "boolean" -> (IF v.b THEN "true" ELSE "false")
                  [] OTHER -> JsonStringify(v)
            kept == SelectSeq(given, LAMBDA e : Resolved(e.v).t \notin {"null", "undefined"})
        IN  query.entries =
               [i \in 1..Len(kept) |-> [k |-> kept[i].k, v |-> Written(Resolved(kept[i].v))]]

\* the query of {env: "$environment", mode: ["a", "b"]} with environment "gpu"
C7_Witness ==
    /\ query.built
    /\ retrieverParams.present
    /\ formValues["environment"] = JsString("gpu")
    /\ query.entries = <<[k |-> "env", v |-> "gpu"], [k |-> "mode", v |-> "[\"a\",\"b\"]"]>>

(***************************************************************************)
(* Properties of the fresh payload, checked under SpecSubmit.              *)
(***************************************************************************)
\* C11: in fresh mode the payload getFormData assembles is the live form's
\* fields, then each 'driver' / 'run_command' snapshot as a direct text field,
\* then 'additional_files' with the JSON object of all other snapshots, then
\* 'env_dir' with environment.src exactly if environment.src is set, then one
\* 'files[]' entry for each element of globalFiles in order, none when
\* globalFiles is empty or absent.
C11_FreshPayload ==
    (jobStatus = "fresh" /\ getFormData.ok) =>
        LET fd == getFormData.formData
            refs == getPaneRefs(panes)
            direct == SelectSeq(refs, LAMBDA r : r.name \in DistinguishedNames)
            rest == SelectSeq(refs, LAMBDA r : r.name \notin DistinguishedNames)
            srcIsSet == environment.present /\ environment.src # ""
            fileCount == IF globalFiles.present THEN Len(globalFiles.items) ELSE 0
        IN  fd = form
                 \o [k \in 1..Len(direct) |->
                        [k |-> direct[k].name, v |-> direct[k].value, file |-> FALSE]]
                 \o <<[k |-> "additional_files",
                       v |-> JsonStringifyObject([k \in 1..Len(rest) |->
                                                    [k |-> rest[k].name, v |-> rest[k].value]]),
                       file |-> FALSE]>>
                 \o (IF srcIsSet
                     THEN <<[k |-> "env_dir", v |-> environment.src, file |-> FALSE]>>
                     ELSE <<>>)
                 \o [k \in 1..fileCount |->
                        [k |-> "files[]", v |-> globalFiles.items[k], file |-> TRUE]]

\* a fresh payload went out with an environment directory and two attached files
C11_Witness ==
    /\ jobStatus = "fresh"
    /\ submitCalls > 0
    /\ lastFormData = getFormData.formData
    /\ FormDataGet(lastFormData, "env_dir").v = "/envs/generic"
    /\ FormDataGet(lastFormData, "driver").v = "echo hi"
    /\ FormDataGet(lastFormData, "additional_files").v = "{\"extra.txt\":\"x\"}"
    /\ Cardinality({i \in 1..Len(lastFormData) : lastFormData[i].k = "files[]"}) = 2

(***************************************************************************)
(* Properties of the editor's debounce, checked under SpecEdit.            *)
(***************************************************************************)
\* C12: getPaneRefs returns, for each displayed pane in display order, the
\* pane's name and the text entered last in its editor, also while the timer of
\* that edit is pending.
C12_SnapshotHoldsLatestEdit ==
    LET sp == getSortedPanes(panes)
        refs == getPaneRefs(panes)
    IN  /\ Len(refs) = Len(sp)
        /\ \A k \in 1..Len(sp) :
              /\ refs[k].name = sp[k].name
              /\ paneTimers[k - 1].pending => refs[k].value = paneTimers[k - 1].content

\* C13: an edit commits nothing itself, arms the timer of its own pane with the
\* full 300 ms and the edit's content and leaves the timers of the other panes
\* alone; the pane list and the onChange callback change only when one pane's
\* timer has run out, by one commit of that timer's content to that pane, after
\* which that timer is gone and the other timers are as before; a pending timer
\* runs down with the time only.
C13_OneCommitPerBurst ==
    [][/\ \A c \in Contents :
             handleContentChange(c) =>
                /\ panes' = panes /\ onChangeCall' = onChangeCall
                /\ paneTimers'[activePane].pending
                /\ paneTimers'[activePane].content = c
                /\ paneTimers'[activePane].remaining = DebounceTicks
                /\ \A j \in PaneIndices \ {activePane} : paneTimers'[j] = paneTimers[j]
       /\ (panes' # panes \/ onChangeCall' # onChangeCall) =>
             \E i \in PaneIndices :
                /\ paneTimers[i].pending /\ paneTimers[i].remaining = 0
                /\ ~paneTimers'[i].pending
                /\ \A j \in PaneIndices \ {i} : paneTimers'[j] = paneTimers[j]
                /\ panes' = [panes EXCEPT ![OriginalIndex(sortedPanes[i + 1].name)].content =
                                             paneTimers[i].content]
                /\ onChangeCall' # onChangeCall =>
                      /\ sortedPanes[i + 1].onChange
                      /\ onChangeCall'.value = paneTimers[i].content
       /\ \A i \in PaneIndices :
             (paneTimers[i].pending /\ paneTimers'[i] # paneTimers[i]) =>
                \/ ~paneTimers'[i].pending /\ paneTimers[i].remaining = 0
                \/ i = activePane /\ paneTimers'[i].remaining = DebounceTicks
                \/ paneTimers'[i] = [paneTimers[i] EXCEPT !.remaining = @ - 1]]_vars

\* the driver's edit has been committed while the edit of the other pane, made
\* 100 ms later, still waits for its own timer
C13_Witness ==
    /\ edits = 2
    /\ onChangeCall = [called |-> TRUE, name |-> "driver", value |-> "x"]
    /\ panes[2].content = "x"
    /\ ~paneTimers[0].pending
    /\ paneTimers[1].pending /\ paneTimers[1].remaining = 1

(***************************************************************************)
(* Properties of the dynamic radio group's timers and overlapping fetches, *)
(* checked under Spec.                                                     *)
(***************************************************************************)
\* C14: the field has at most one pending debounce timer in every reachable state.
C14_AtMostOnePendingTimer == Len(timers) <= 1

\* the value of the env parameter in query q, "" without one
EnvOf(q) ==
    IF \E i \in 1..Len(q) : q[i].k = "env"
    THEN q[CHOOSE i \in 1..Len(q) : q[i].k = "env"].v
    ELSE ""

\* C15: whichever fetch in flight resolves successfully, the first or a later
\* one, its response becomes the option set and the field is evaluated; so when
\* two fetches overlap the option set is the response of the one that resolved
\* last, whichever was started first.
C15_LastResolvedWins ==
    [][\A i \in 1..MaxFetchCalls :
           FetchResolve(i, "ok") =>
              /\ options' = ServerData(inflight[i].query)
              /\ isEvaluated']_vars

\* two fetches overlapped; the one started later, for "gpu", has resolved and the
\* one started earlier, for "cpu", is still in flight
C15_Witness ==
    /\ fetchStarts = 2
    /\ Len(inflight) = 1
    /\ EnvOf(inflight[1].query) = "cpu"
    /\ formValues["environment"] = JsString("gpu")
    /\ isEvaluated
    /\ options = <<Option("b", FALSE)>>

\* C16: the request a step issues carries the parameters resolved against the
\* FormValues of that moment, also when a debounce timer issues it.
C16_QueryOfCurrentValues ==
    [][Len(inflight') > Len(inflight) =>
           inflight'[Len(inflight')].query = BuildQuery(retrieverParams, formValues')]_vars

\* the timer armed when environment became "gpu" has fired after environment went
\* back to "cpu": the request of the change carries "gpu", the timer's "cpu"
C16_Witness ==
    /\ fetchStarts = 3
    /\ timers = <<>>
    /\ options = <<>> /\ ~isEvaluated
    /\ Len(inflight) = 2
    /\ EnvOf(inflight[1].query) = "gpu"
    /\ EnvOf(inflight[2].query) = "cpu"
    /\ formValues["environment"] = JsString("cpu")

\* C17: once a fetch has failed and none is in flight, a step issues a fetch only
\* if it is a new user-triggered event: a FormValues field changes, the field is
\* shown or hidden, or the value changes.
C17_NoFetchAfterFailureWithoutEvent ==
    [][(/\ error # NoError /\ ~isEvaluated /\ inflight = <<>>
        /\ fetchStarts' # fetchStarts)
          => (formValues' # formValues \/ isShown' # isShown \/ value' # value)]_vars

(***************************************************************************)
(* Properties of aborted submissions, checked under SpecSubmit.            *)
(***************************************************************************)
\* C18: a submit that is aborted for an empty job name or for missing form data
\* changes no state: props.rerunInfo, the form, the panes, the transport status
\* and the submitJob calls are after it what they were before it.
C18_AbortChangesNothing ==
    [][(/\ handleSubmit
        /\ ~isJobRunning
        /\ ~getFormData.ok \/ NameIsEmpty(getFormData.formData))
          => /\ rerunInfo' = rerunInfo
             /\ form' = form /\ panes' = panes /\ globalFiles' = globalFiles
             /\ status' = status /\ submitCalls' = submitCalls
             /\ lastFormData' = lastFormData]_vars

\* C20: while the payload getFormData assembles has no 'name' field at all, no
\* step invokes submitJob.
C20_NoSubmitWithoutName ==
    [][(getFormData.ok /\ ~FormDataGet(getFormData.formData, "name").found)
          => (submitCalls' = submitCalls /\ lastFormData' = lastFormData)]_vars

\* ---- the dynamic radio group among fields it depends on and fields it does not
NextFields ==
    \/ Mount
    \/ \E f \in Fields : \E v \in FieldValues(f) : ChangeFormValue(f, v)
    \/ ChangeShown
    \/ \E v \in {"a", "b"} : handleValueChange(v)
    \/ \E i \in 1..MaxFetchCalls : DebounceTimerFire(i)
    \/ \E i \in 1..MaxFetchCalls : \E outcome \in FetchOutcomes : FetchResolve(i, outcome)
    \/ Tick

SpecFields == InitDrg /\ [][NextFields]_vars

(***************************************************************************)
(* Properties of the fetch triggers, checked under SpecFields.             *)
(***************************************************************************)
\* a field the retriever parameters refer to changes its value in this step
DependencyChanges ==
    \E f \in Fields : IsRelevantField(f) /\ formValues'[f] # formValues[f]

\* a field the retriever parameters do not refer to changes, and no other does
OtherFieldChangeStep ==
    /\ \E f \in Fields : ~IsRelevantField(f) /\ formValues'[f] # formValues[f]
    /\ ~DependencyChanges

\* the evaluated flag rises only as a fetch succeeds, and a change of a field
\* that is not referred to starts no fetch and leaves options and flag alone
EvaluatedAndOtherFields ==
    /\ (isEvaluated' /\ ~isEvaluated) =>
          \E i \in 1..MaxFetchCalls : \E outcome \in FetchOutcomes :
              ~IsFailure(outcome) /\ FetchResolve(i, outcome)
    /\ OtherFieldChangeStep =>
          /\ fetchStarts' = fetchStarts /\ timers' = timers
          /\ options' = options /\ isEvaluated' = isEvaluated

JobNotTerminal == submitCalls > 0 /\ (acked < submitCalls \/ isJobRunning)

\* C21: while a job handed to submitJob has not reached a terminal status, no
\* step invokes submitJob again, also before the transport has published
\* 'submitting' for it.
C21_NoSecondSubmit ==
    [][JobNotTerminal => submitCalls' = submitCalls]_vars

(***************************************************************************)
(* Properties of the dynamic radio group's recovery and loading flag.      *)
(***************************************************************************)
\* C22 (under SpecFields): when the group is shown and evaluated, no fetch is in
\* flight, no timer is pending and no fetch has failed, the options displayed
\* are the response to the request built from the dependency values of that
\* moment; a dependency change made while a fetch was in flight is not lost.
C22_OptionsOfFinalValues ==
    (/\ mounted /\ isShown /\ isEvaluated
     /\ inflight = <<>> /\ timers = <<>> /\ error = NoError)
        => options = ServerData(BuildQuery(retrieverParams, formValues))

\* C23 (under Spec): when a fetch has failed, the field is shown and not
\* evaluated and nothing is in flight, a change of a dependency field starts a
\* fetch or arms the timer that will start one.
C23_DependencyChangeRecovers ==
    [][(/\ mounted /\ isShown /\ ~isEvaluated
        /\ error # NoError /\ inflight = <<>>
        /\ DependencyChanges)
          => (fetchStarts' > fetchStarts \/ Len(timers') > Len(timers))]_vars

\* C26 (under Spec): the loading flag is true exactly while at least one fetch
\* of the field is in flight.
C26_LoadingIffInFlight == isLoading <=> (inflight # <<>>)

(***************************************************************************)
(* The frame of a debounced commit, checked under SpecEdit.                *)
(***************************************************************************)
\* C25: the commit of pane timer i changes the content of the pane that has the
\* edited pane's name to the edit's text and nothing else of the pane list: the
\* number of panes, their array order, each name, preview_name and order and
\* the content of every other pane stay, panes of order -1 included.
C25_CommitFrame ==
    [][\A i \in PaneIndices :
           PaneTimerFire(i) =>
              /\ Len(panes') = Len(panes)
              /\ \A k \in 1..Len(panes) :
                    /\ panes'[k].name = panes[k].name
                    /\ panes'[k].preview_name = panes[k].preview_name
                    /\ panes'[k].order = panes[k].order
                    /\ panes'[k].onChange = panes[k].onChange
                    /\ panes'[k].content =
                          IF panes[k].name = paneTimers[i].name
                          THEN paneTimers[i].content
                          ELSE panes[k].content]_vars

\* the edit of extra.txt has been committed: the list still has its three panes,
\* the hidden one among them, and the driver's content is the old one
C25_Witness ==
    /\ Len(panes) = 3
    /\ panes[1].name = "extra.txt" /\ panes[1].content = "echo hi" /\ panes[1].order = 0
    /\ panes[2].name = "driver" /\ panes[2].content = "echo hi"
    /\ panes[3].name = "job.log" /\ panes[3].order = -1 /\ panes[3].content = NoContent
    /\ \A i \in PaneIndices : ~paneTimers[i].pending
    /\ edits > 0

(***************************************************************************)
(* The active pane under a parent-supplied index.                          *)
(***************************************************************************)
\* ---- the editor mounted with every pane list that displays a pane and every
\* ---- parent-supplied index, none and out-of-range ones included
\* the longest pane list the editor is mounted with here
MaxActivePanes == 3

PropActivePanes == {NoActivePaneProp} \cup (0..MaxActivePanes + 1)

InitActive ==
    /\ panes \in {ps \in PaneLists :
                    Len(ps) <= MaxActivePanes /\ Len(getSortedPanes(ps)) > 0}
    /\ paneTimers = [i \in PaneIndices |-> NoTimer]
    /\ activePane = 0
    /\ propActivePane \in PropActivePanes
    /\ onChangeCall = NoCall
    /\ edits = 0
    /\ jobStatus = "fresh"
    /\ rerunInfo = DefaultRerunInfo
    /\ form = DefaultForm
    /\ globalFiles = NoFiles
    /\ environment = DefaultEnvironment
    /\ showSplitScreenModal = TRUE
    /\ multiPaneMounted = TRUE
    /\ InitComposerState
    /\ NoDrg

NextActive == ActivePaneEffects

SpecActive == InitActive /\ [][NextActive]_vars

\* React runs the effects of a committed render
SpecActiveFair == SpecActive /\ WF_vars(ActivePaneEffects)

\* C24 (under SpecActiveFair): the two activePane effects come to rest, neither
\* having anything left to set, with activePane below the number of displayed
\* panes, for every parent-supplied index and every pane list that displays a
\* pane.
C24_ActivePaneSettles ==
    <>[](/\ ~SyncFromProp
         /\ ~ResetOutOfBounds
         /\ activePane < Len(sortedPanes))

====
